---- MODULE Spec2Model ----
(***************************************************************************)
(* Model of src/src/file/data.rs: the entry decoder of a zip reader.       *)
(*                                                                         *)
(*   ReaderBuilder::new          -> action Begin                           *)
(*   ReaderBuilder::seek_to_data -> action SeekToData                      *)
(*   Reader::read (Stored arm)   -> action ReadStored                      *)
(*   Reader::read (Deflate arm)  -> action ReadDeflate                     *)
(*   dropping a builder / reader -> action Drop                            *)
(*                                                                         *)
(* The storage handle is a byte sequence `disk` with a cursor `pos`.  The  *)
(* inflate routine of miniz_oxide is modelled by a resumable decoder of a  *)
(* small LZ77 byte code (literals, back references into the circular       *)
(* window, an end marker) that keeps the interface the reader relies on:   *)
(* decompress(r, data, out, out_pos, 0) -> (status, consumed, written).    *)
(* The window capacity is scaled down from 32 * 1024 to WindowCap.         *)
(***************************************************************************)
EXTENDS Integers, Sequences, FiniteSets

\* ------------------------------------------------------------- bounds
MaxIn == 3          \* longest payload of entry 2
MaxBuf == 3         \* largest caller buffer handed to read
MaxChunk == 2       \* most bytes one refill of the buffered handle fetches
MaxLen == 2         \* largest declared length header.len
MaxSessions == 1    \* ReaderBuilder::new calls in one run of Spec
MaxReuse == 2       \* ReaderBuilder::new calls in one run of SpecReuse
MaxReuseIn == 2     \* longest payload of entry 2 in SpecReuse

\* ---------------------------------------------------- program constants
WindowCap == 2      \* InflateBuffer capacity (32 * 1024 in the source)
HeaderSize == 26    \* size_of::<zip_format::Header>()
SigSize == 4        \* the "+ 4" of the prefix buffer
STORED == 0         \* zip_format::CompressionMethod::STORED
DEFLATE == 8        \* zip_format::CompressionMethod::DEFLATE
U16 == 65536        \* width of out_pos / read_cursor

PrefixSize == HeaderSize + SigSize

\* ------------------------------------------------------------ helpers
Min(a, b) == IF a <= b THEN a ELSE b

Zeros(n) == [i \in 1..n |-> 0]

Slice(s, from, n) == [i \in 1..n |-> s[from + i]]

IsPrefix(s, t) == Len(s) <= Len(t) /\ \A i \in 1..Len(s) : s[i] = t[i]

\* ---------------------------------------------- local header (zip_format)
Signature == <<80, 75, 3, 4>>

\* Header::as_prefix: the signature must match; name_len and metadata_len
\* are the two trailing little-endian 16-bit fields.
as_prefix(buf) ==
    IF Slice(buf, 0, SigSize) = Signature
    THEN [ok |-> TRUE,
          name_len |-> buf[PrefixSize - 3] + 256 * buf[PrefixSize - 2],
          metadata_len |-> buf[PrefixSize - 1] + 256 * buf[PrefixSize]]
    ELSE [ok |-> FALSE, name_len |-> 0, metadata_len |-> 0]

\* ------------------------------------------------------ archive layout
LocalHeader(sig, nameLen, extraLen) ==
    sig \o Zeros(HeaderSize - 4) \o <<nameLen, 0, extraLen, 0>>

\* A region whose signature is corrupted, then entry 1 (a one-byte name),
\* then entry 2 (one byte of metadata) whose payload ends the archive.
Archive(p1, p2) ==
    LocalHeader(<<80, 75, 3, 5>>, 0, 0)
    \o LocalHeader(Signature, 1, 0) \o <<7>> \o p1
    \o LocalHeader(Signature, 0, 1) \o <<9>> \o p2

\* Entry 1's payload: a literal, a back reference to it, the end marker.
Payload1 == <<1, 3, 1, 0>>

\* What the directory layer knows of the archive: where the headers and the
\* payloads are.
StartBad == 0
Start1 == PrefixSize
Data1 == Start1 + PrefixSize + 1
Start2 == Data1 + Len(Payload1)
Data2 == Start2 + PrefixSize + 1

\* ------------------------------------------------- inflate (miniz_oxide)
END == 0
MATCH == 3
Literals == {1, 2}
MatchLen == 2
TokenBytes == {END, MATCH} \cup Literals

\* DecompressorOxide::init
InflateInit == [mode |-> "Sym", dist |-> 0, cnt |-> 0, lit |-> 0]

InflateResult(r, status, consumed, written, buf) ==
    [r |-> r, status |-> status, consumed |-> consumed, written |-> written,
     buf |-> buf]

\* One call of decompress with flags = 0: the output is a circular window,
\* writing stops at the end of the buffer (HasMoreOutput), and running out
\* of input keeps the state (FailedCannotMakeProgress) so that the next call
\* resumes.  i = bytes consumed, w = bytes written, out = write offset.
RECURSIVE InflateLoop(_, _, _, _, _, _)
InflateLoop(r, data, i, buf, out, w) ==
    CASE r.mode = "Done" -> InflateResult(r, "Done", i, w, buf)
      [] r.mode = "Failed" -> InflateResult(r, "Failed", i, w, buf)
      [] r.mode = "Lit" ->
            IF out = WindowCap
            THEN InflateResult(r, "HasMoreOutput", i, w, buf)
            ELSE InflateLoop([r EXCEPT !.mode = "Sym", !.lit = 0], data, i,
                             [buf EXCEPT ![out + 1] = r.lit], out + 1, w + 1)
      [] r.mode = "Copy" ->
            IF out = WindowCap
            THEN InflateResult(r, "HasMoreOutput", i, w, buf)
            ELSE LET src == (out + WindowCap - r.dist) % WindowCap
                     r2 == IF r.cnt = 1
                           THEN [r EXCEPT !.mode = "Sym", !.cnt = 0, !.dist = 0]
                           ELSE [r EXCEPT !.cnt = r.cnt - 1]
                 IN  InflateLoop(r2, data, i,
                                 [buf EXCEPT ![out + 1] = buf[src + 1]],
                                 out + 1, w + 1)
      [] OTHER ->
            IF i = Len(data)
            THEN InflateResult(r, "FailedCannotMakeProgress", i, w, buf)
            ELSE LET b == data[i + 1]
                     r2 == IF r.mode = "Sym"
                           THEN CASE b = END -> [r EXCEPT !.mode = "Done"]
                                  [] b \in Literals ->
                                        [r EXCEPT !.mode = "Lit", !.lit = b]
                                  [] b = MATCH -> [r EXCEPT !.mode = "Dist"]
                                  [] OTHER -> [r EXCEPT !.mode = "Failed"]
                           ELSE IF b \in 1..WindowCap
                                THEN [r EXCEPT !.mode = "Copy", !.dist = b,
                                               !.cnt = MatchLen]
                                ELSE [r EXCEPT !.mode = "Failed"]
                 IN  InflateLoop(r2, data, i + 1, buf, out, w)

decompress(r, data, buf, out) == InflateLoop(r, data, 0, buf, out, 0)


\* --------------------------------------------------------------- state
VARIABLES
    payload,        \* payload bytes of entry 2, the last bytes of the handle D
    pos,            \* its cursor: offset of the next byte not yet consumed
    bufLen,         \* bytes held by the Buffered handle beyond pos (fill_buf)
    deflateEnabled, \* cfg(feature = "read-deflate")
    deflate,        \* Decompressor.deflate: Option<Box<(DecompressorOxide, InflateBuffer)>>
    phase,          \* "idle" | "builder" (ReaderBuilder) | "reader" (Reader)
    holders,        \* live values whose type carries the borrow &'a mut Decompressor
    header,         \* the FileHeader given to the last ReaderBuilder::new
    imp,            \* ReaderImpl: kind, remaining, out_pos, read_cursor
    buffered,       \* number of times into_buffered was applied to this handle
    sessions,       \* number of ReaderBuilder::new calls so far
    delivered,      \* bytes the caller received from read since new
    produced,       \* bytes the inflate steps wrote since new
    eofSeen,        \* a read with a non-empty buffer has returned Ok(0)
    last            \* what the last call did and returned

vars == <<payload, pos, bufLen, deflateEnabled, deflate, phase, holders, header, imp,
          buffered, sessions, delivered, produced, eofSeen, last>>

\* Payloads of entry 2: every byte string up to max over the token bytes
\* with no end marker before its last byte.
StreamsUpTo(max) ==
    {s \in UNION {[1..k -> TokenBytes] : k \in 1..max} :
        \A i \in 1..(Len(s) - 1) : s[i] # END}

Streams == StreamsUpTo(MaxIn)

Methods == {STORED, DEFLATE, 9}

NoHeader == [method |-> STORED, start |-> 0, len |-> 0]

NoImp == [kind |-> "None", remaining |-> 0, out_pos |-> 0, read_cursor |-> 0]

NoDeflate == [present |-> FALSE, state |-> InflateInit, backbuf |-> Zeros(WindowCap)]

Call(op, result, n, buflen, io) ==
    [op |-> op, result |-> result, n |-> n, buflen |-> buflen, io |-> io,
     refill |-> FALSE, chunk |-> 0, consumed |-> 0, written |-> 0,
     status |-> "None", first0 |-> FALSE, fault |-> "none"]

Init ==
    /\ payload \in Streams
    /\ pos = 0
    /\ bufLen = 0
    /\ deflateEnabled \in BOOLEAN
    /\ deflate = NoDeflate
    /\ phase = "idle"
    /\ holders = 0
    /\ header = NoHeader
    /\ imp = NoImp
    /\ buffered = 0
    /\ sessions = 0
    /\ delivered = <<>>
    /\ produced = <<>>
    /\ eofSeen = FALSE
    /\ last = Call("none", "Ok", 0, 0, <<>>)

\* The bytes of the storage handle D.
disk == Archive(Payload1, payload)

\* The offsets a directory layer may hand to new: the three header places
\* of the archive and one so close to the end that the prefix cannot be read.
Starts == {StartBad, Start1, Start2, Len(disk) - 2}

\* ------------------------------------------------- ReaderBuilder::new
\* The Deflate arm taken without the feature.
MethodArmNoFeature(method) ==
    CASE method = STORED -> "Stored"
      [] method = DEFLATE -> "Deflate"
      [] OTHER -> "Err"

\* The match on header.method: which arm is taken.
MethodArm(method) ==
    CASE method = STORED -> "Stored"
      [] method = DEFLATE /\ deflateEnabled -> "Deflate"
      [] OTHER -> "Err"

\* A new allocation on every call.
AcquireFresh(d) ==
    [present |-> TRUE, state |-> InflateInit, backbuf |-> Zeros(WindowCap)]

\* decompressor.deflate.get_or_insert_with(Default::default), then .0.init()
Acquire(d) ==
    IF d.present
    THEN [d EXCEPT !.state = InflateInit]
    ELSE [present |-> TRUE, state |-> InflateInit, backbuf |-> Zeros(WindowCap)]

\* Storage calls made by new.
BeginIo == <<>>

\* The exclusive borrow &'a mut Decompressor is held by the value new
\* returns, so new can be called only while no builder or reader is alive.
Begin(method, start, len) ==
    /\ holders = 0
    /\ sessions' = sessions + 1
    /\ header' = [method |-> method, start |-> start, len |-> len]
    /\ delivered' = <<>>
    /\ produced' = <<>>
    /\ eofSeen' = FALSE
    /\ LET arm == MethodArm(method)
       IN  /\ deflate' = IF arm = "Deflate" THEN Acquire(deflate) ELSE deflate
           /\ imp' = IF arm = "Err" THEN NoImp
                     ELSE [kind |-> arm, remaining |-> len,
                           out_pos |-> 0, read_cursor |-> 0]
           /\ phase' = IF arm = "Err" THEN "idle" ELSE "builder"
           /\ holders' = IF arm = "Err" THEN holders ELSE holders + 1
           /\ last' = Call("new", IF arm = "Err" THEN "MethodNotSupported" ELSE "Ok",
                           0, 0, BeginIo)
    /\ buffered' = 0
    /\ UNCHANGED <<payload, pos, bufLen, deflateEnabled>>


\* ----------------------------------------- ReaderBuilder::seek_to_data
\* The forward seek over the name alone.
SeekOffsetName(h) == h.name_len

\* The forward seek after the prefix: name_len + metadata_len.
SeekOffset(h) == h.name_len + h.metadata_len

\* The borrow kept after an error.
HoldersKept(h) == h

\* What seek_to_data leaves of the borrow when it returns an error: self
\* was moved in and is dropped.
HoldersAfterSeekError(h) == h - 1

\* A parse whose failure is not propagated.
HeaderRejectedNever(h) == FALSE

\* Header::as_prefix(&buf).ok_or(error::NotAnArchive(()))?
HeaderRejected(h) == ~h.ok

SeekOutcome(result, newPos, io) == [result |-> result, pos |-> newPos, io |-> io]

\* A storage call whose error is dropped.
FailedNever(fail, call) == FALSE

\* The `?` after a storage call: seek_to_data returns early with the error
\* when the handle failed that call.
Failed(fail, call) == fail = call

\* The four steps in order, each `?` returning early.  fail names the
\* storage call that the handle fails, if any.
SeekSteps(start, fail) ==
    IF Failed(fail, "seek_start")
    THEN SeekOutcome("IoError", pos, <<"seek_start">>)
    ELSE IF Failed(fail, "read_exact")
    THEN SeekOutcome("IoError", start, <<"seek_start", "read_exact">>)
    ELSE IF start + PrefixSize > Len(disk)
    THEN SeekOutcome("IoError", IF start > Len(disk) THEN start ELSE Len(disk),
                     <<"seek_start", "read_exact">>)
    ELSE LET h == as_prefix(Slice(disk, start, PrefixSize))
             read == <<"seek_start", "read_exact", "parse">>
         IN  IF HeaderRejected(h)
             THEN SeekOutcome("NotAnArchive", start + PrefixSize, read)
             ELSE IF Failed(fail, "seek_cur")
             THEN SeekOutcome("IoError", start + PrefixSize,
                              Append(read, "seek_cur"))
             ELSE SeekOutcome("Ok", start + PrefixSize + SeekOffset(h),
                              Append(read, "seek_cur"))

SeekFailures == {"none", "seek_start", "read_exact", "seek_cur"}

\* The transform applied to every handle.
BuffersAny(kind) == TRUE

\* The arm of the final match that calls into_buffered(self.disk).
Buffers(kind) == kind = "Deflate"

\* The storage call the handle failed during seek_to_data, if it was made:
\* the injected failure, or the read_exact that meets the end of the handle.
SeekFault(start, fail, io) ==
    IF \E i \in 1..Len(io) : io[i] = fail THEN fail
    ELSE IF start + PrefixSize > Len(disk) /\ Len(io) >= 2 THEN "read_exact"
    ELSE "none"

SeekToData(fail) ==
    /\ phase = "builder"
    /\ LET o == SeekSteps(header.start, fail)
           ok == o.result = "Ok"
           wrap == ok /\ Buffers(imp.kind)
       IN  /\ pos' = o.pos
           /\ phase' = IF ok THEN "reader" ELSE "idle"
           /\ holders' = IF ok THEN holders ELSE HoldersAfterSeekError(holders)
           /\ imp' = IF ok THEN imp ELSE NoImp
           /\ buffered' = IF wrap THEN buffered + 1 ELSE buffered
           /\ last' = [Call("seek_to_data", o.result, 0, 0,
                            IF wrap THEN Append(o.io, "into_buffered") ELSE o.io)
                          EXCEPT !.fault = SeekFault(header.start, fail, o.io)]
    /\ bufLen' = 0
    /\ UNCHANGED <<payload, deflateEnabled, deflate, header, sessions,
                   delivered, produced, eofSeen>>

\* ------------------------------------------------ Reader::read, Stored
\* Bytes the handle still holds from its cursor on.
Avail == IF pos >= Len(disk) THEN 0 ELSE Len(disk) - pos

\* The read without the Take limit.
StoredMaxUnlimited(remaining, n) == n

\* Take::read: the slice handed to the inner read is min(buf.len(), limit).
StoredMax(remaining, n) == Min(n, remaining)

\* Counts an io::Read may return for a slice of max bytes: at least one byte
\* when there is room and data, possibly fewer than asked.
InnerReadCounts(max) ==
    IF max = 0 \/ Avail = 0 THEN {0} ELSE 1..Min(max, Avail)

\* read in the Stored arm, reporting Ok(0) as it is returned.
StoredResult(k, remaining) == "Ok"

ReadStored(n, k, fail) ==
    /\ phase = "reader"
    /\ imp.kind = "Stored"
    /\ LET max == StoredMax(imp.remaining, n)
           inner == imp.remaining # 0       \* Take returns Ok(0) at limit 0
           io == IF inner THEN <<"read">> ELSE <<>>
       IN  IF inner /\ fail
           THEN /\ k = 0
                /\ last' = [Call("read", "IoError", 0, n, io)
                               EXCEPT !.fault = "read"]
                /\ UNCHANGED <<pos, imp, delivered, eofSeen>>
           ELSE /\ k \in (IF inner THEN InnerReadCounts(max) ELSE {0})
                /\ ~fail
                /\ pos' = pos + k
                /\ imp' = [imp EXCEPT !.remaining = imp.remaining - k]
                /\ delivered' = delivered \o Slice(disk, pos, k)
                /\ eofSeen' = (eofSeen \/ (k = 0 /\ n >= 1))
                /\ last' = [Call("read", StoredResult(k, imp.remaining), k, n, io)
                               EXCEPT !.first0 = (k = 0 /\ n >= 1 /\ ~eofSeen)]
    /\ UNCHANGED <<payload, bufLen, deflateEnabled, deflate, phase, holders,
                   header, buffered, sessions, produced>>


\* ----------------------------------------------- Reader::read, Deflate
\* A refill on every read.
NeedRefillAlways(out_pos, read_cursor) == TRUE

\* if read_cursor == out_pos
NeedRefill(out_pos, read_cursor) == read_cursor = out_pos

\* Every refill written from offset 0.
RefillStartZero(out) == 0

\* if out == backbuf.len() { out = 0 }
RefillStart(out) == IF out = WindowCap THEN 0 ELSE out

\* The cursor left at the capacity.
NormCursorOff(cursor) == cursor

\* if cursor == backbuf.len() { cursor = 0 }
NormCursor(cursor) == IF cursor = WindowCap THEN 0 ELSE cursor

\* The drain that hands out at most one byte per read.
DrainLenOne(out, cursor, n) == Min(Min(out - cursor, n), 1)

\* out.checked_sub(cursor).unwrap().min(buf.len())
DrainLen(out, cursor, n) == Min(out - cursor, n)

\* The declared length counted down by the bytes delivered.
DeflateRemainingTracked(remaining, len) == remaining - len

\* The Deflate arm binds disk, decompressor, out_pos, read_cursor and `..`:
\* remaining is neither read nor written.
DeflateRemaining(remaining, len) == remaining

\* A failed inflate step reported as an error.
StatusChecked(status) == IF status = "Failed" THEN "DataError" ELSE "Ok"

\* let (_status, consumed, written) = decompress(..): the status is dropped
\* and read ends with Ok(len).
StatusResult(status) == "Ok"

\* BufRead::fill_buf: the bytes already buffered, or, when there are none, a
\* fresh chunk of c bytes from the handle (c = 0 only at its end).
ChunkLens ==
    IF bufLen > 0 THEN {bufLen}
    ELSE IF Avail = 0 THEN {0}
    ELSE 1..Min(MaxChunk, Avail)

ReadDeflate(n, c, fail) ==
    /\ phase = "reader"
    /\ imp.kind = "Deflate"
    /\ LET refill == NeedRefill(imp.out_pos, imp.read_cursor)
           fetch == refill /\ bufLen = 0        \* fill_buf reads the handle
       IN  IF fetch /\ fail
           THEN /\ c = 0
                /\ last' = [Call("read", "IoError", 0, n, <<"fill_buf">>)
                               EXCEPT !.refill = TRUE, !.fault = "fill_buf"]
                /\ UNCHANGED <<pos, bufLen, deflate, imp, delivered, produced,
                               eofSeen>>
           ELSE /\ ~fail
                /\ c \in (IF refill THEN ChunkLens ELSE {0})
                /\ LET out0 == IF refill THEN RefillStart(imp.out_pos)
                               ELSE imp.out_pos
                       step == IF refill
                               THEN decompress(deflate.state, Slice(disk, pos, c),
                                               deflate.backbuf, out0)
                               ELSE InflateResult(deflate.state, "None", 0, 0,
                                                  deflate.backbuf)
                       out == out0 + step.written
                       cursor == NormCursor(imp.read_cursor)
                       panic == out < cursor    \* checked_sub(..).unwrap()
                       len == IF panic THEN 0 ELSE DrainLen(out, cursor, n)
                       zero == ~panic /\ len = 0 /\ n >= 1
                   IN  /\ deflate' = [deflate EXCEPT !.state = step.r,
                                                     !.backbuf = step.buf]
                       /\ pos' = pos + step.consumed
                       /\ bufLen' = IF refill THEN c - step.consumed ELSE bufLen
                       /\ produced' = produced \o Slice(step.buf, out0, step.written)
                       /\ imp' = IF panic THEN imp
                                 ELSE [imp EXCEPT
                                          !.read_cursor = (cursor + len) % U16,
                                          !.out_pos = out % U16,
                                          !.remaining =
                                              DeflateRemaining(imp.remaining, len)]
                       /\ delivered' = delivered \o Slice(step.buf, cursor, len)
                       /\ eofSeen' = (eofSeen \/ zero)
                       /\ last' = [Call("read",
                                        IF panic THEN "Panic"
                                        ELSE StatusResult(step.status),
                                        len, n,
                                        IF refill THEN <<"fill_buf", "consume">>
                                        ELSE <<>>)
                                      EXCEPT !.refill = refill, !.chunk = c,
                                             !.consumed = step.consumed,
                                             !.written = step.written,
                                             !.status = step.status,
                                             !.first0 = (zero /\ ~eofSeen)]
    /\ UNCHANGED <<payload, deflateEnabled, phase, holders, header, buffered,
                   sessions>>

\* ------------------------------------------------------------- drop
\* The caller discards the builder or the reader; the borrow ends.
Drop ==
    /\ phase \in {"builder", "reader"}
    /\ phase' = "idle"
    /\ holders' = holders - 1
    /\ imp' = NoImp
    /\ bufLen' = 0
    /\ header' = NoHeader
    /\ delivered' = <<>>
    /\ produced' = <<>>
    /\ eofSeen' = FALSE
    /\ buffered' = 0
    /\ last' = Call("drop", "Ok", 0, 0, <<>>)
    /\ UNCHANGED <<payload, pos, deflateEnabled, deflate, sessions>>

Reads ==
    \/ \E n \in 0..MaxBuf, k \in 0..MaxBuf, f \in BOOLEAN : ReadStored(n, k, f)
    \/ \E n \in 0..MaxBuf, c \in 0..MaxChunk, f \in BOOLEAN : ReadDeflate(n, c, f)

Open(max) ==
    /\ sessions < max
    /\ \E m \in Methods, s \in Starts, l \in 0..MaxLen : Begin(m, s, l)

\* One entry opened per run, over every payload.
Next ==
    \/ Open(MaxSessions)
    \/ \E f \in SeekFailures : SeekToData(f)
    \/ Reads
    \/ Drop

Spec == Init /\ [][Next]_vars

\* Several entries opened one after the other on the same Decompressor, over
\* the shorter payloads.
InitReuse == Init /\ payload \in StreamsUpTo(MaxReuseIn)

NextReuse ==
    \/ Open(MaxReuse)
    \/ \E f \in SeekFailures : SeekToData(f)
    \/ Reads
    \/ Drop

SpecReuse == InitReuse /\ [][NextReuse]_vars


\* ======================================================== properties
\* Where the payload of the entry whose header is at start begins, from the
\* layout of the archive.
PayloadStart(start) == IF start = Start1 THEN Data1 ELSE Data2

\* The bytes of the handle from the payload of the opened entry on.
InputFrom(start) ==
    Slice(disk, PayloadStart(start), Len(disk) - PayloadStart(start))

StoredReader == phase = "reader" /\ imp.kind = "Stored"
DeflateReader == phase = "reader" /\ imp.kind = "Deflate"

\* C1: a Stored entry of declared length L on a handle that holds at least L
\* payload bytes: at the first read with a non-empty buffer that returns 0
\* the caller has received exactly the L payload bytes, in order, whatever
\* the buffer sizes and however the handle split its reads.
C1_StoredRoundTrip ==
    (/\ StoredReader
     /\ last.op = "read"
     /\ last.first0
     /\ PayloadStart(header.start) + header.len <= Len(disk))
    => delivered = Slice(disk, PayloadStart(header.start), header.len)

C1_Witness ==
    /\ StoredReader
    /\ last.op = "read" /\ last.first0
    /\ header.start = Start1
    /\ header.len = MaxLen
    /\ delivered = Slice(Payload1, 0, MaxLen)


\* The output a Deflate payload stands for: the decoding of its tokens into
\* an unbounded output, defined only when every back reference stays inside
\* the output and the end marker is reached.
RECURSIVE RefCopy(_, _, _)
RefCopy(acc, d, n) ==
    IF n = 0 THEN acc
    ELSE RefCopy(Append(acc, acc[Len(acc) - d + 1]), d, n - 1)

RECURSIVE RefInflate(_, _, _)
RefInflate(s, i, acc) ==
    IF i > Len(s) THEN [ok |-> FALSE, out |-> acc]
    ELSE CASE s[i] = END -> [ok |-> TRUE, out |-> acc]
           [] s[i] \in Literals -> RefInflate(s, i + 1, Append(acc, s[i]))
           [] s[i] = MATCH ->
                 IF i + 1 > Len(s) \/ s[i + 1] \notin 1..Min(Len(acc), WindowCap)
                 THEN [ok |-> FALSE, out |-> acc]
                 ELSE RefInflate(s, i + 2, RefCopy(acc, s[i + 1], MatchLen))
           [] OTHER -> [ok |-> FALSE, out |-> acc]

Original(start) == RefInflate(InputFrom(start), 1, <<>>)

\* C2 (as claimed): a Deflate entry with a well-formed payload: at the first
\* read with a non-empty buffer that returns 0 the caller has received the
\* complete decompressed output, whatever the buffer sizes and however the
\* buffered input was split into chunks.
C2_DeflateRoundTrip ==
    (/\ DeflateReader
     /\ last.op = "read"
     /\ last.first0
     /\ Original(header.start).ok)
    => delivered = Original(header.start).out

\* C3: in Deflate mode the bytes delivered are a prefix of the bytes the
\* inflate steps wrote, and the bytes written but not yet delivered are
\* exactly the out_pos - read_cursor bytes of the window the reader still
\* holds: none is delivered twice, none is skipped, across the resets of
\* out_pos and read_cursor at the capacity.
C3_DeliveredPrefix ==
    DeflateReader =>
        /\ IsPrefix(delivered, produced)
        /\ Len(produced) - Len(delivered) = imp.out_pos - imp.read_cursor
        /\ Slice(produced, Len(delivered), Len(produced) - Len(delivered))
              = Slice(deflate.backbuf, imp.read_cursor,
                      imp.out_pos - imp.read_cursor)

C3_Witness ==
    /\ DeflateReader
    /\ Len(produced) > WindowCap
    /\ delivered = produced
    /\ imp.out_pos < WindowCap

\* C4: new succeeds for method 0 and, with Deflate support, for method 8;
\* every other call fails with MethodNotSupported and leaves no builder; in
\* every case the cursor and the buffer of the storage handle are untouched.
C4_MethodValidation ==
    [][sessions' # sessions =>
         /\ last'.op = "new"
         /\ last'.result = (IF \/ header'.method = 0
                               \/ header'.method = 8 /\ deflateEnabled
                            THEN "Ok" ELSE "MethodNotSupported")
         /\ (last'.result = "Ok") = (phase' = "builder")
         /\ (last'.result # "Ok") => phase' = "idle" /\ imp' = NoImp
         /\ last'.io = <<>>
         /\ pos' = pos /\ bufLen' = bufLen]_vars

C4_Witness ==
    /\ last.op = "new"
    /\ last.result = "MethodNotSupported"
    /\ header.method = 8
    /\ ~deflateEnabled

\* C5: when the prefix read at header.start does not parse, seek_to_data
\* fails with NotAnArchive right after the parse: no further seek or read,
\* no into_buffered, no reader.
C5_BadPrefix ==
    /\ (last.op = "seek_to_data" /\ last.result = "NotAnArchive") =>
          /\ last.io = <<"seek_start", "read_exact", "parse">>
          /\ pos = header.start + PrefixSize
          /\ phase = "idle" /\ imp = NoImp
          /\ buffered = 0
    /\ (/\ last.op = "seek_to_data"
        /\ header.start = StartBad
        /\ Len(last.io) >= 3) => last.result = "NotAnArchive"

C5_Witness ==
    /\ last.op = "seek_to_data"
    /\ last.result = "NotAnArchive"
    /\ header.method = 8
    /\ deflate.present


\* What a Decompressor that has never been used writes for the input: the
\* inflate steps run from the initial state on a zeroed window.
RECURSIVE FreshRun(_, _, _, _, _)
FreshRun(r, data, buf, out, acc) ==
    LET o == RefillStart(out)
        step == decompress(r, data, buf, o)
    IN  IF step.written = 0 /\ step.consumed = 0 THEN acc
        ELSE FreshRun(step.r,
                      Slice(data, step.consumed, Len(data) - step.consumed),
                      step.buf, o + step.written,
                      acc \o Slice(step.buf, o, step.written))

FreshOutput(start) ==
    FreshRun(InflateInit, InputFrom(start), Zeros(WindowCap), 0, <<>>)

\* C6 (as claimed): whatever entry was decompressed before on the same
\* Decompressor, the bytes a Deflate entry produces are those its own
\* compressed bytes produce on an unused Decompressor.
C6_EngineIsolation ==
    DeflateReader => IsPrefix(produced, FreshOutput(header.start))

\* C7: at most one builder or reader holds the Decompressor, exactly while
\* it is alive; a failed new or seek_to_data leaves it not held, and new can
\* then be called for a Deflate entry.
C7_ExclusiveHold ==
    /\ holders <= 1
    /\ (holders = 1) = (phase \in {"builder", "reader"})
    /\ (last.op \in {"new", "seek_to_data"} /\ last.result # "Ok") =>
          /\ holders = 0
          /\ sessions < MaxReuse => ENABLED Begin(DEFLATE, Start1, 0)

C7_Witness ==
    /\ last.op = "seek_to_data"
    /\ last.result = "IoError"
    /\ header.method = 8
    /\ deflate.present
    /\ sessions = 1
    /\ holders = 0

\* C8: after a successful seek_to_data the cursor is at header.start + P +
\* name_len + metadata_len, which is the first payload byte of the entry, and
\* the calls were: seek to start, read the prefix, parse, seek forward.
C8_PayloadStart ==
    (last.op = "seek_to_data" /\ last.result = "Ok") =>
        /\ pos = PayloadStart(header.start)
        /\ pos = header.start + PrefixSize
                 + (IF header.start = Start1 THEN 1 + 0 ELSE 0 + 1)
        /\ Slice(last.io, 0, 4) = <<"seek_start", "read_exact", "parse", "seek_cur">>
        /\ phase = "reader"
        /\ bufLen = 0

C8_Witness ==
    /\ last.op = "seek_to_data"
    /\ last.result = "Ok"
    /\ header.start = Start2
    /\ pos = Data2

DeflateRead ==
    DeflateReader /\ last.op = "read" /\ last.result = "Ok" /\ last.buflen >= 1

C10_PrematureEnd ==
    (/\ StoredReader
     /\ last.op = "read"
     /\ last.buflen >= 1
     /\ last.io = <<"read">>
     /\ last.n = 0
     /\ imp.remaining > 0) => last.result # "Ok"

\* The storage calls of one operation are pairwise different: none is made
\* a second time.
NoRetry(io) == \A i, j \in 1..Len(io) : io[i] = io[j] => i = j

\* C11: a seek or read that the storage handle fails ends the operation
\* with that I/O error at the failed call, no call being repeated. A failed
\* read (Stored or Deflate) leaves remaining, out_pos, read_cursor, the
\* window and the inflate state as they were and delivers nothing; a failed
\* call inside seek_to_data leaves no Stream Reader and applies no transform.
C11_IoFailure ==
    [][last'.fault # "none" =>
          /\ last'.result = "IoError"
          /\ last'.io # <<>>
          /\ last'.io[Len(last'.io)] = last'.fault
          /\ NoRetry(last'.io)
          /\ last'.op = "read" =>
                 /\ imp' = imp
                 /\ deflate' = deflate
                 /\ phase' = phase
                 /\ delivered' = delivered
                 /\ produced' = produced
          /\ last'.op = "seek_to_data" =>
                 /\ phase' = "idle"
                 /\ imp' = NoImp
                 /\ buffered' = 0
                 /\ deflate' = deflate]_vars

C11_Witness ==
    /\ DeflateReader
    /\ last.op = "read"
    /\ last.fault = "fill_buf"
    /\ last.result = "IoError"
    /\ Len(delivered) > 0
    /\ imp.read_cursor = imp.out_pos

\* C12: in every state of a Deflate Stream Reader
\* 0 <= read_cursor <= out_pos <= capacity, both below the range of their
\* 16-bit fields, and no read has failed the checked subtraction
\* out - cursor.
C12_CursorBounds ==
    (imp.kind = "Deflate") =>
        /\ 0 <= imp.read_cursor
        /\ imp.read_cursor <= imp.out_pos
        /\ imp.out_pos <= WindowCap
        /\ WindowCap < U16
        /\ last.result # "Panic"

C12_Witness ==
    /\ DeflateReader
    /\ last.op = "read"
    /\ last.refill
    /\ Len(produced) > WindowCap
    /\ Len(delivered) = Len(produced)
    /\ imp.out_pos = 1
    /\ imp.read_cursor = 1

\* The offset at which a refill entered with this out_pos starts to write.
WriteStart(out) == IF out = WindowCap THEN 0 ELSE out

\* C13: the window and the inflate state change only in a read that runs an
\* inflate step; that read was entered with read_cursor = out_pos, wrote
\* its bytes at out_pos (at 0 when out_pos was the capacity) and not beyond
\* the capacity, and left every other window byte as it was, so no byte
\* between read_cursor and out_pos was overwritten.
C13_RefillOnlyWhenDrained ==
    [][/\ (phase = "reader" /\ deflate' # deflate) =>
              last'.op = "read" /\ last'.refill
       /\ (last'.op = "read" /\ last'.refill) =>
              imp.read_cursor = imp.out_pos
       /\ (last'.op = "read" /\ last'.refill /\ last'.fault = "none") =>
              /\ WriteStart(imp.out_pos) + last'.written <= WindowCap
              /\ imp'.out_pos = WriteStart(imp.out_pos) + last'.written
              /\ \A i \in 1..WindowCap :
                     (i <= WriteStart(imp.out_pos)
                      \/ i > WriteStart(imp.out_pos) + last'.written) =>
                         deflate'.backbuf[i] = deflate.backbuf[i]]_vars

C13_Witness ==
    /\ DeflateReader
    /\ last.op = "read"
    /\ last.refill
    /\ last.written = 1
    /\ Len(produced) > WindowCap
    /\ imp.out_pos = 1

\* C14: a successful Stored read returns n <= min(remaining, buf.len()) and
\* leaves remaining smaller by exactly n and not below 0; the bytes
\* delivered never outnumber the declared length; a read entered with
\* remaining = 0 returns 0 and makes no call on the handle, whose position
\* stays where it was.
C14_StoredCountdown ==
    [][(StoredReader /\ last'.op = "read" /\ last'.result = "Ok") =>
          /\ last'.n <= Min(imp.remaining, last'.buflen)
          /\ imp'.remaining = imp.remaining - last'.n
          /\ imp'.remaining >= 0
          /\ imp'.remaining <= imp.remaining
          /\ Len(delivered') = Len(delivered) + last'.n
          /\ Len(delivered') + imp'.remaining = header.len
          /\ imp.remaining = 0 =>
                 /\ last'.n = 0
                 /\ last'.io = <<>>
                 /\ pos' = pos]_vars

C14_Witness ==
    /\ StoredReader
    /\ last.op = "read"
    /\ last.result = "Ok"
    /\ last.buflen >= 1
    /\ last.io = <<>>
    /\ imp.remaining = 0
    /\ Len(delivered) = MaxLen

\* C15: a Deflate read entered with read_cursor # out_pos returns
\* min(out_pos - read_cursor, buf.len()), which is at least 1 for a
\* non-empty buffer, delivers these window bytes and advances read_cursor
\* by that amount; out_pos, the inflate state, the window, the buffered
\* input and the handle are left as they were: no inflate step is run and
\* no input is fetched or consumed.
C15_DrainOnly ==
    [][(DeflateReader /\ imp.read_cursor # imp.out_pos /\ last'.op = "read") =>
          /\ last'.result = "Ok"
          /\ last'.n = Min(imp.out_pos - imp.read_cursor, last'.buflen)
          /\ last'.buflen >= 1 => last'.n >= 1
          /\ imp'.read_cursor = imp.read_cursor + last'.n
          /\ imp'.out_pos = imp.out_pos
          /\ delivered' =
                 delivered \o Slice(deflate.backbuf, imp.read_cursor, last'.n)
          /\ deflate' = deflate
          /\ bufLen' = bufLen
          /\ pos' = pos
          /\ ~last'.refill
          /\ last'.io = <<>>
          /\ last'.consumed = 0]_vars

C15_Witness ==
    /\ DeflateReader
    /\ last.op = "read"
    /\ ~last.refill
    /\ last.n = 1
    /\ last.buflen = 1
    /\ imp.read_cursor = imp.out_pos
    /\ bufLen > 0

\* C16: the make_buffered transform has been applied exactly once in every
\* state of a Deflate Stream Reader and not at all in any other state; the
\* seek_to_data that applied it did so as its last step, after the forward
\* seek; a seek_to_data that failed or that opened a Stored entry did not
\* apply it, and a Stored reader never holds buffered input.
C16_BufferedOnce ==
    /\ buffered = (IF DeflateReader THEN 1 ELSE 0)
    /\ StoredReader => bufLen = 0
    /\ last.op = "seek_to_data" =>
           /\ (\E i \in 1..Len(last.io) : last.io[i] = "into_buffered")
                  <=> DeflateReader
           /\ DeflateReader =>
                  last.io = <<"seek_start", "read_exact", "parse",
                              "seek_cur", "into_buffered">>
           /\ last.result # "Ok" => phase = "idle"

C16_Witness ==
    /\ DeflateReader
    /\ last.op = "seek_to_data"
    /\ buffered = 1
    /\ header.start = Start2

\* C17: the engine holds no inflate state and no window until a new for a
\* Deflate entry succeeds; that call allocates them zeroed. A new for a
\* Stored entry or one that is refused leaves the engine as it was. Once
\* present the allocation stays: a later Deflate new resets the inflate
\* state and keeps the same window, bytes included, and nothing else ever
\* changes presence.
C17_SingleAllocation ==
    [][/\ deflate.present => deflate'.present
       /\ (~deflate.present /\ deflate'.present) =>
              /\ last'.op = "new"
              /\ last'.result = "Ok"
              /\ header'.method = DEFLATE
              /\ deflateEnabled
              /\ deflate'.backbuf = Zeros(WindowCap)
              /\ deflate'.state = InflateInit
       /\ (last'.op = "new" /\ (last'.result # "Ok" \/ imp'.kind # "Deflate")) =>
              deflate' = deflate
       /\ (last'.op = "new" /\ deflate.present) =>
              deflate'.backbuf = deflate.backbuf
       /\ (last'.op = "new" /\ last'.result = "Ok" /\ imp'.kind = "Deflate") =>
              deflate'.present /\ deflate'.state = InflateInit]_vars

C17_Witness ==
    /\ phase = "builder"
    /\ imp.kind = "Deflate"
    /\ last.op = "new"
    /\ sessions = MaxReuse
    /\ deflate.present
    /\ deflate.backbuf # Zeros(WindowCap)

\* C18: in Deflate mode remaining holds the declared length given to new
\* in every state, and a read ends with Ok or with the I/O error of the
\* input fetch, never with an error about the length, whether the bytes
\* delivered are fewer or more than the declared length.
C18_RemainingUntouched ==
    (imp.kind = "Deflate") =>
        /\ imp.remaining = header.len
        /\ last.op = "read" => last.result \in {"Ok", "IoError"}
        /\ (last.op = "read" /\ Len(delivered) > header.len) =>
               last.result = "Ok" \/ last.fault = "fill_buf"

C18_Witness ==
    /\ DeflateReader
    /\ last.op = "read"
    /\ last.result = "Ok"
    /\ header.len = 1
    /\ Len(delivered) > header.len
    /\ imp.remaining = 1
    /\ eofSeen

\* The end of stream was reached with fewer bytes than the declared length.
C18_Shorter ==
    /\ DeflateReader
    /\ last.op = "read"
    /\ last.result = "Ok"
    /\ eofSeen
    /\ Len(delivered) < header.len

\* C19: a Deflate read ends with an error exactly when the handle failed
\* the input fetch; the status of the inflate step never becomes an error:
\* a step that failed on its input and wrote nothing makes read return
\* Ok(0), as at the end of the stream.
C19_StatusIgnored ==
    (DeflateReader /\ last.op = "read") =>
        /\ (last.result # "Ok") <=> (last.fault = "fill_buf")
        /\ last.result \in {"Ok", "IoError"}
        /\ (last.refill /\ last.fault = "none"
            /\ last.status \in {"Failed", "FailedCannotMakeProgress"}
            /\ last.written = 0) =>
               last.result = "Ok" /\ last.n = 0

C19_Witness ==
    /\ DeflateReader
    /\ last.op = "read"
    /\ last.buflen >= 1
    /\ last.status = "Failed"
    /\ last.consumed > 0
    /\ last.written = 0
    /\ last.result = "Ok"
    /\ last.n = 0

====
